---------------------------- MODULE Spec2Model ----------------------------
(***************************************************************************)
(* A model of the telecom churn ETL pipeline:                              *)
(*   scripts/load.py       load_to_supabase (column normalizer, batch      *)
(*                         loader with retry/backoff and local fallback)   *)
(*   scripts/transform.py  transform_data (imputation, derived columns,    *)
(*                         the staged file)                                *)
(*   scripts/validate.py   run_validation (the checks on the staged file   *)
(*                         and the remote row count)                       *)
(*                                                                         *)
(* Strings that the code inspects character by character (column names)    *)
(* are tuples of one-character strings.  An error message is the set of    *)
(* schema signatures (substrings) it contains, which is all the code reads *)
(* of it.  A numeric cell of the transform is kept in half units (2 * v),  *)
(* so that the median of an even number of integers is exact.              *)
(***************************************************************************)
EXTENDS Integers, Sequences, FiniteSets, TLC

VARIABLES
    \* ---- environment of load_to_supabase
    url,            \* SUPABASE_URL: "unset", "empty" or "set"
    key,            \* SUPABASE_KEY: "unset", "empty" or "set"
    staged,         \* the staged CSV: [exists, cols |-> header, rows |-> cells]
    batch_size,     \* parameter batch_size
    max_retries,    \* parameter max_retries
    backoff_factor, \* parameter backoff_factor
    \* ---- locals of load_to_supabase
    pc,             \* position in load_to_supabase
    supabase,       \* "unbound", "None" or "client"
    original_cols,  \* list(df.columns) as read
    normalized,     \* [_normalize_col(c) for c in original_cols]
    df,             \* the DataFrame: [cols |-> df.columns, rows |-> cells]
    i,              \* loop variable of `for i in range(0, total_rows, batch_size)`,
                    \* Unbound before the first iteration
    records,        \* batch.to_dict('records') of the current batch
    attempt,        \* retry counter of the current batch
    batches,        \* the records of every batch the loop formed, in order
    \* ---- effects of load_to_supabase
    calls,          \* every insert(...).execute() made, in order
    sleeps,         \* every time.sleep(wait) made, in order
    remote,         \* rows held by the remote table
    fallback,       \* the local copy file: [exists, cols, rows]
    status,         \* how each batch started so far ended (from the printed lines)
    result,         \* "running", "returned" or "raised"
    \* ---- transform_data
    tpc,            \* position in transform_data
    raw_tenure,     \* the "tenure" column of the raw CSV; a cell is <<v>> or Missing
    tenure,         \* df["tenure"], half units, Missing for a NaN
    tenure_group,   \* df["tenure_group"]
    raw_exists,     \* whether the raw CSV exists
    raw_monthly,    \* the "MonthlyCharges" column of the raw CSV
    raw_total,      \* the "TotalCharges" column of the raw CSV; a cell may be Unparsable
    raw_contract,   \* the "Contract" column of the raw CSV; a cell is a string or Missing
    monthly,        \* df["MonthlyCharges"], half units
    total,          \* df["TotalCharges"], half units
    contract,       \* df["Contract"]
    monthly_charge_segment, \* df["monthly_charge_segment"]
    contract_type_code,     \* df["contract_type_code"]
    staged_dir,     \* whether the directory data/staged exists
    staged_data,    \* what run_validation reads of the staged CSV's columns
    tresult,        \* "running", "returned" or "raised"
    \* ---- run_validation
    vpc,            \* position in run_validation
    validation_results, \* the dict validation_results: the keys set so far
    queries,        \* every count query executed, in order, by what it did
    vresult         \* "running", "returned" or "raised"

vars == <<url, key, staged, batch_size, max_retries, backoff_factor, pc, supabase,
          original_cols, normalized, df, i, records, attempt, batches, calls, sleeps,
          remote, fallback, status, result, tpc, raw_tenure, tenure, tenure_group,
          raw_exists, raw_monthly, raw_total, raw_contract, monthly, total, contract,
          monthly_charge_segment, contract_type_code, staged_dir, staged_data, tresult,
          vpc, validation_results, queries, vresult>>

envVars     == <<url, key, staged, batch_size, max_retries, backoff_factor>>
colVars     == <<original_cols, normalized, df>>
loopVars    == <<i, records, attempt, batches>>
effectVars  == <<calls, sleeps, remote, fallback, status>>
loaderVars  == <<envVars, pc, supabase, colVars, loopVars, effectVars, result>>
rawVars     == <<raw_exists, raw_tenure, raw_monthly, raw_total, raw_contract>>
frameVars   == <<tenure, monthly, total, contract, tenure_group, monthly_charge_segment,
                 contract_type_code>>
transformVars == <<tpc, rawVars, frameVars, staged_dir, staged_data, tresult>>
validatorVars == <<vpc, validation_results, queries, vresult>>

----------------------------------------------------------------------------
(* Bounds of the model *)

MaxRows == 3        \* rows of the staged dataset
MaxBatch == 2       \* batch_size ranges over 1..MaxBatch
MaxRetries == 2     \* max_retries ranges over 0..MaxRetries
MaxNameLen == 4     \* characters of a column name
MaxCols == 2        \* columns of a header whose names are drawn freely
MaxColNameLen == 2  \* characters of a name in such a header
MaxTenureRows == 2  \* rows of the raw dataset of transform_data
MaxImputeRows == 3  \* rows of a raw dataset with missing numeric cells
MaxContractRows == 2 \* rows of a raw dataset of contracts
MaxStagedRows == 4  \* rows of a staged file and of a remote table for the validator

(* Values outside the data *)

NoFile == [exists |-> FALSE, cols |-> <<>>, rows |-> <<>>]
NULL == "NaN"       \* pandas' missing value in a cell
None == "None"      \* Python's None
Unbound == -1       \* a local integer not assigned yet

----------------------------------------------------------------------------
(* Generic helpers *)

RECURSIVE SeqsUpTo(_, _)
SeqsUpTo(S, n) ==
    IF n = 0 THEN {<<>>}
    ELSE LET shorter == SeqsUpTo(S, n - 1)
         IN  shorter \cup {Append(s, x) : s \in {t \in shorter : Len(t) = n - 1}, x \in S}

RECURSIVE Pow(_, _)
Pow(b, e) == IF e = 0 THEN 1 ELSE b * Pow(b, e - 1)

Min(a, b) == IF a < b THEN a ELSE b

Slice(s, from, to) == [k \in 1..(Min(to, Len(s)) - from) |-> s[from + k]]

----------------------------------------------------------------------------
(* Characters *)

UpperSeq == <<"A","B","C","D","E","F","G","H","I","J","K","L","M",
              "N","O","P","Q","R","S","T","U","V","W","X","Y","Z">>
LowerSeq == <<"a","b","c","d","e","f","g","h","i","j","k","l","m",
              "n","o","p","q","r","s","t","u","v","w","x","y","z">>
Digits == {"0","1","2","3","4","5","6","7","8","9"}

Upper == {UpperSeq[k] : k \in 1..Len(UpperSeq)}
Lower == {LowerSeq[k] : k \in 1..Len(LowerSeq)}

isupper(ch) == ch \in Upper

lower(ch) ==
    IF ch \in Upper
    THEN LowerSeq[CHOOSE k \in 1..Len(UpperSeq) : UpperSeq[k] = ch]
    ELSE ch


----------------------------------------------------------------------------
(* Column Normalizer: load.py, _normalize_col and the mapping loop *)

\* re.sub(r'([a-z0-9])([A-Z])', r'\1_\2', s): a lower-case letter or digit
\* followed by an ASCII capital gets an underscore between the two.  A match
\* ends in a capital, which starts no match, so matches never overlap.
RECURSIVE CamelSub(_)
CamelSub(s) ==
    IF Len(s) < 2 THEN s
    ELSE IF s[1] \in (Lower \cup Digits) /\ s[2] \in Upper
         THEN <<s[1], "_">> \o CamelSub(Tail(s))
         ELSE <<s[1]>> \o CamelSub(Tail(s))

\* the complement of the class [^0-9a-zA-Z_]
IsWordChar(ch) == ch \in (Digits \cup Lower \cup Upper \cup {"_"})

RECURSIVE SkipNonWord(_)
SkipNonWord(s) ==
    IF s = <<>> \/ IsWordChar(s[1]) THEN s ELSE SkipNonWord(Tail(s))

\* re.sub(r'[^0-9a-zA-Z_]+', '_', s): every maximal run of characters outside
\* the class becomes one underscore; underscores themselves are in the class.
RECURSIVE NonWordSub(_)
NonWordSub(s) ==
    IF s = <<>> THEN <<>>
    ELSE IF IsWordChar(s[1])
         THEN <<s[1]>> \o NonWordSub(Tail(s))
         ELSE <<"_">> \o NonWordSub(SkipNonWord(Tail(s)))

RECURSIVE LStrip(_)
LStrip(s) == IF s # <<>> /\ s[1] = "_" THEN LStrip(Tail(s)) ELSE s

RECURSIVE RStrip(_)
RStrip(s) ==
    IF s # <<>> /\ s[Len(s)] = "_" THEN RStrip(SubSeq(s, 1, Len(s) - 1)) ELSE s

\* s.strip('_')
Strip(s) == RStrip(LStrip(s))

\* s.lower()
LowerStr(s) == [k \in 1..Len(s) |-> lower(s[k])]

\* norm.replace("_", "")
RemoveUnderscores(s) == SelectSeq(s, LAMBDA ch : ch # "_")

\* Faulty variant of _normalize_col: the underscores are stripped before the
\* punctuation is replaced
normalize_col_StripFirst(c) == LowerStr(NonWordSub(Strip(CamelSub(c))))

_normalize_col(c) == LowerStr(Strip(NonWordSub(CamelSub(c))))

\* any(ch.isupper() for ch in str(orig))
HasUpper(orig) == \E k \in 1..Len(orig) : isupper(orig[k])

\* Faulty variant of DbName: the upper-case test reads the normalized name
DbName_TestsNorm(orig, norm) ==
    IF (\E k \in 1..Len(norm) : isupper(norm[k])) THEN RemoveUnderscores(norm) ELSE norm

\* the body of `for orig, norm in zip(original_cols, normalized)`
DbName(orig, norm) == IF HasUpper(orig) THEN RemoveUnderscores(norm) ELSE norm

\* mapped, as the loop leaves it
Mapped(origs, norms) == [k \in 1..Len(origs) |-> DbName(origs[k], norms[k])]

----------------------------------------------------------------------------
(* Batch Loader: load.py, load_to_supabase *)

\* What the code reads of an error message: which schema signatures occur in it.
Signatures == {"Could not find", "PGRST", "column"}

\* The messages the remote store answers with: a transient one (no signature)
\* and schema errors carrying one or all of the signatures.
ErrMessages == {{}, {"Could not find"}, {"PGRST"}, {"column"}, Signatures}

\* Faulty variant of IsSchemaIssue: the test for 'column' is left out
IsSchemaIssue_NoColumn(err_str) ==
    \/ "Could not find" \in err_str
    \/ "PGRST" \in err_str

\* 'Could not find' in err_str or 'PGRST' in err_str or 'column' in err_str
IsSchemaIssue(err_str) ==
    \/ "Could not find" \in err_str
    \/ "PGRST" \in err_str
    \/ "column" \in err_str

\* Faulty variant of get_supabase_client: only the URL is tested
get_supabase_client_UrlOnly(u, k) ==
    IF u \in {"unset", "empty"} THEN None ELSE "client"

\* get_supabase_client: `if not url or not key: return None`
get_supabase_client(u, k) ==
    IF u \in {"unset", "empty"} \/ k \in {"unset", "empty"} THEN None ELSE "client"

\* Faulty variant of ToRecords: the slice ends one row early
ToRecords_OffByOne(frame, from, size) ==
    LET rows == Slice(frame.rows, from, from + size - 1)
    IN  [k \in 1..Len(rows) |->
            [cols |-> frame.cols,
             cell |-> IF rows[k] = NULL THEN None ELSE rows[k]]]

\* batch.where(pd.notnull(batch), None).to_dict('records') of df.iloc[from:from+size]:
\* each record maps the columns to the row's cell, a missing cell as None
ToRecords(frame, from, size) ==
    LET rows == Slice(frame.rows, from, from + size)
    IN  [k \in 1..Len(rows) |->
            [cols |-> frame.cols,
             cell |-> IF rows[k] = NULL THEN None ELSE rows[k]]]

\* df.to_csv(out_path, index=False): the header and the cells in row order,
\* a missing cell as the empty field
ToCsv(frame) ==
    [exists |-> TRUE,
     cols |-> frame.cols,
     rows |-> [k \in 1..Len(frame.rows) |->
                 IF frame.rows[k] = NULL THEN "" ELSE frame.rows[k]]]

\* i // batch_size + 1
BatchNo(start, size) == (start \div size) + 1

\* Faulty variant of Wait: the exponent is the attempt counter before its increment
Wait_BeforeIncrement(factor, n) == Pow(factor, n - 1)

\* wait = backoff_factor ** attempt
Wait(factor, n) == Pow(factor, n)


\* The header of the staged file: columns of churn_staged.csv as transform_data
\* writes them (one lower-case, one CamelCase, one with a separator).
StagedHeader ==
    << <<"t","e","n","u","r","e">>,
       <<"M","o","n","t","h","l","y","C","h","a","r","g","e","s">>,
       <<"t","e","n","u","r","e","_","g","r","o","u","p">> >>

\* A row of the model is one cell standing for the row's values.
Cells == {"x", NULL}

StagedFiles ==
    {NoFile} \cup
    {[exists |-> TRUE, cols |-> StagedHeader, rows |-> r] : r \in SeqsUpTo(Cells, MaxRows)}

EnvValues == {"unset", "empty", "set"}

\* values of the parameter backoff_factor: the default 2.0 and another
BackoffFactors == {2, 3}

total_rows == Len(df.rows)

\* lines 104-112: the staged file is looked up; without it the function returns
Start ==
    /\ pc = "start"
    /\ IF ~staged.exists
       THEN pc' = "done" /\ result' = "returned"
       ELSE pc' = "get_client" /\ UNCHANGED result
    /\ UNCHANGED <<envVars, supabase, colVars, loopVars, effectVars, transformVars,
                   validatorVars>>

\* line 116
GetClient ==
    /\ pc = "get_client"
    /\ supabase' = get_supabase_client(url, key)
    /\ pc' = "read_csv"
    /\ UNCHANGED <<envVars, colVars, loopVars, effectVars, result, transformVars,
                   validatorVars>>

\* lines 119, 127
ReadCsv ==
    /\ pc = "read_csv"
    /\ df' = [cols |-> staged.cols, rows |-> staged.rows]
    /\ original_cols' = staged.cols
    /\ pc' = "normalize"
    /\ UNCHANGED <<envVars, supabase, normalized, loopVars, effectVars, result,
                   transformVars,
                   validatorVars>>

\* line 128
NormalizeCols ==
    /\ pc = "normalize"
    /\ normalized' = [k \in 1..Len(original_cols) |-> _normalize_col(original_cols[k])]
    /\ pc' = "map"
    /\ UNCHANGED <<envVars, supabase, original_cols, df, loopVars, effectVars, result,
                   transformVars,
                   validatorVars>>

\* lines 134-143
MapCols ==
    /\ pc = "map"
    /\ df' = [df EXCEPT !.cols = Mapped(original_cols, normalized)]
    /\ pc' = "check_client"
    /\ UNCHANGED <<envVars, supabase, original_cols, normalized, loopVars, effectVars,
                   result, transformVars,
                   validatorVars>>

\* Faulty variant of CheckClient: without a client the function returns and
\* writes no local copy
CheckClient_NoCopy ==
    /\ pc = "check_client"
    /\ IF supabase = None
       THEN /\ pc' = "done"
            /\ result' = "returned"
            /\ UNCHANGED fallback
       ELSE /\ pc' = "for"
            /\ UNCHANGED <<fallback, result>>
    /\ UNCHANGED <<envVars, supabase, colVars, loopVars, calls, sleeps, remote, status,
                   transformVars,
                   validatorVars>>

\* lines 152-158: no client, so the local copy is written and the function returns
\* (otherwise the loop is entered)
CheckClient ==
    /\ pc = "check_client"
    /\ IF supabase = None
       THEN /\ fallback' = ToCsv(df)
            /\ pc' = "done"
            /\ result' = "returned"
       ELSE /\ pc' = "for"
            /\ UNCHANGED <<fallback, result>>
    /\ UNCHANGED <<envVars, supabase, colVars, loopVars, calls, sleeps, remote, status,
                   transformVars,
                   validatorVars>>

\* lines 161-165, 176 and 230: the next value of range(0, total_rows, batch_size),
\* the batch's records and attempt = 0; the function ends when the range is used up.
\* (The check of lines 168-174 cannot succeed here: supabase is not None.)
ForNext ==
    /\ pc = "for"
    /\ LET nxt == IF i = Unbound THEN 0 ELSE i + batch_size
       IN  IF nxt < total_rows
           THEN /\ i' = nxt
                /\ records' = ToRecords(df, nxt, batch_size)
                /\ attempt' = 0
                /\ batches' = Append(batches, records')
                /\ status' = Append(status, "ATTEMPTING")
                /\ pc' = "insert"
                /\ UNCHANGED result
           ELSE /\ pc' = "done"
                /\ result' = "returned"
                /\ UNCHANGED <<loopVars, status>>
    /\ UNCHANGED <<envVars, supabase, colVars, calls, sleeps, remote, fallback,
                   transformVars,
                   validatorVars>>

\* one insert(records).execute(): the batch, what was sent, the value of attempt,
\* whether it answered without error and, if not, the error message
Call(ok, err) ==
    [batch |-> BatchNo(i, batch_size), records |-> records, attempt |-> attempt,
     ok |-> ok, err |-> err]

SetStatus(st) == [status EXCEPT ![Len(status)] = st]

\* Faulty variant of InsertOk: the retry loop is not left after the success
InsertOk_NoBreak ==
    /\ pc = "insert"
    /\ attempt <= max_retries
    /\ calls' = Append(calls, Call(TRUE, {}))
    /\ remote' = remote \o records
    /\ status' = SetStatus("SUCCEEDED")
    /\ pc' = "insert"
    /\ UNCHANGED <<envVars, supabase, colVars, loopVars, sleeps, fallback, result,
                   transformVars,
                   validatorVars>>

\* lines 179, 203-206: the insert answers without an error
InsertOk ==
    /\ pc = "insert"
    /\ attempt <= max_retries
    /\ calls' = Append(calls, Call(TRUE, {}))
    /\ remote' = remote \o records
    /\ status' = SetStatus("SUCCEEDED")
    /\ pc' = "for"
    /\ UNCHANGED <<envVars, supabase, colVars, loopVars, sleeps, fallback, result,
                   transformVars,
                   validatorVars>>

\* Faulty variant of OnError: attempt is not incremented
OnError_NoIncrement(err_str) ==
    IF IsSchemaIssue(err_str)
    THEN /\ fallback' = ToCsv(df)
         /\ status' = SetStatus("SCHEMA_ABORT")
         /\ pc' = "done"
         /\ result' = "returned"
         /\ UNCHANGED <<attempt, sleeps>>
    ELSE /\ attempt' = attempt
         /\ IF attempt' > max_retries
            THEN /\ status' = SetStatus("EXHAUSTED")
                 /\ pc' = "for"
                 /\ UNCHANGED sleeps
            ELSE /\ sleeps' = Append(sleeps, [batch |-> BatchNo(i, batch_size),
                                              wait |-> Wait(backoff_factor, attempt')])
                 /\ pc' = "insert"
                 /\ UNCHANGED status
         /\ UNCHANGED <<fallback, result>>

\* Faulty variant of OnError: the batch is given up one attempt early
\* (`attempt >= max_retries`)
OnError_OffByOne(err_str) ==
    IF IsSchemaIssue(err_str)
    THEN /\ fallback' = ToCsv(df)
         /\ status' = SetStatus("SCHEMA_ABORT")
         /\ pc' = "done"
         /\ result' = "returned"
         /\ UNCHANGED <<attempt, sleeps>>
    ELSE /\ attempt' = attempt + 1
         /\ IF attempt' >= max_retries
            THEN /\ status' = SetStatus("EXHAUSTED")
                 /\ pc' = "for"
                 /\ UNCHANGED sleeps
            ELSE /\ sleeps' = Append(sleeps, [batch |-> BatchNo(i, batch_size),
                                              wait |-> Wait(backoff_factor, attempt')])
                 /\ pc' = "insert"
                 /\ UNCHANGED status
         /\ UNCHANGED <<fallback, result>>

\* lines 186-202 and 212-228: a schema issue writes the local copy and returns;
\* any other error counts an attempt, gives the batch up past max_retries and
\* otherwise sleeps before the next attempt
OnError(err_str) ==
    IF IsSchemaIssue(err_str)
    THEN /\ fallback' = ToCsv(df)
         /\ status' = SetStatus("SCHEMA_ABORT")
         /\ pc' = "done"
         /\ result' = "returned"
         /\ UNCHANGED <<attempt, sleeps>>
    ELSE /\ attempt' = attempt + 1
         /\ IF attempt' > max_retries
            THEN /\ status' = SetStatus("EXHAUSTED")
                 /\ pc' = "for"
                 /\ UNCHANGED sleeps
            ELSE /\ sleeps' = Append(sleeps, [batch |-> BatchNo(i, batch_size),
                                              wait |-> Wait(backoff_factor, attempt')])
                 /\ pc' = "insert"
                 /\ UNCHANGED status
         /\ UNCHANGED <<fallback, result>>

\* Faulty variant of InsertErrorResponse: the error in the response is not
\* looked at and the batch is taken to be inserted
InsertErrorResponse_Ignored ==
    /\ pc = "insert"
    /\ attempt <= max_retries
    /\ \E err_str \in ErrMessages : calls' = Append(calls, Call(FALSE, err_str))
    /\ status' = SetStatus("SUCCEEDED")
    /\ pc' = "for"
    /\ UNCHANGED <<envVars, supabase, colVars, loopVars, sleeps, remote, fallback, result,
                   transformVars,
                   validatorVars>>

\* lines 179-202: the insert answers with a dict carrying an error
InsertErrorResponse ==
    /\ pc = "insert"
    /\ attempt <= max_retries
    /\ \E err_str \in ErrMessages :
          /\ calls' = Append(calls, Call(FALSE, err_str))
          /\ OnError(err_str)
    /\ UNCHANGED <<envVars, supabase, colVars, i, records, batches, remote,
                   transformVars,
                   validatorVars>>

\* lines 179, 208-228: the insert raises
InsertException ==
    /\ pc = "insert"
    /\ attempt <= max_retries
    /\ \E err_str \in ErrMessages :
          /\ calls' = Append(calls, Call(FALSE, err_str))
          /\ OnError(err_str)
    /\ UNCHANGED <<envVars, supabase, colVars, i, records, batches, remote,
                   transformVars,
                   validatorVars>>

LoaderIdle ==
    /\ supabase = "unbound"
    /\ normalized = <<>>
    /\ i = Unbound
    /\ records = <<>>
    /\ attempt = 0
    /\ batches = <<>>
    /\ calls = <<>>
    /\ sleeps = <<>>
    /\ remote = <<>>
    /\ fallback = NoFile
    /\ status = <<>>
    /\ result = "running"

\* the staged CSV's columns before anything is known of them
NoData ==
    [nulls |-> 0, tenure_group |-> {}, monthly_charge_segment |-> {},
     contract_type_code |-> {}]

\* the locals of transform_data before it has read anything
FrameIdle ==
    /\ tenure = <<>>
    /\ monthly = <<>>
    /\ total = <<>>
    /\ contract = <<>>
    /\ tenure_group = <<>>
    /\ monthly_charge_segment = <<>>
    /\ contract_type_code = <<>>
    /\ tresult = "running"

TransformIdle ==
    /\ tpc = "idle"
    /\ raw_exists = FALSE
    /\ raw_tenure = <<>>
    /\ raw_monthly = <<>>
    /\ raw_total = <<>>
    /\ raw_contract = <<>>
    /\ FrameIdle
    /\ staged_dir = TRUE
    /\ staged_data = NoData

ValidatorIdle ==
    /\ vpc = "idle"
    /\ validation_results = <<>>
    /\ queries = <<>>
    /\ vresult = "running"

Init ==
    /\ url \in EnvValues
    /\ key \in EnvValues
    /\ staged \in StagedFiles
    /\ batch_size \in 1..MaxBatch
    /\ max_retries \in 0..MaxRetries
    /\ backoff_factor \in BackoffFactors
    /\ pc = "start"
    /\ original_cols = <<>>
    /\ df = [cols |-> <<>>, rows |-> <<>>]
    /\ LoaderIdle
    /\ TransformIdle
    /\ ValidatorIdle

Next ==
    \/ Start
    \/ GetClient
    \/ ReadCsv
    \/ NormalizeCols
    \/ MapCols
    \/ CheckClient
    \/ ForNext
    \/ InsertOk
    \/ InsertErrorResponse
    \/ InsertException

Spec == Init /\ [][Next]_vars


----------------------------------------------------------------------------
(* The Column Normalizer alone: lines 127-143 of load_to_supabase on a header *)
(* of one freely drawn name                                                   *)

Alphabet == {"a", "b", "A", "B", "1", "_", "-", " "}

Names == SeqsUpTo(Alphabet, MaxNameLen)

LoaderEnvIdle ==
    /\ url = "set"
    /\ key = "set"
    /\ batch_size = 1
    /\ max_retries = 0
    /\ backoff_factor = 2

InitNorm ==
    /\ LoaderEnvIdle
    /\ pc = "normalize"
    /\ original_cols \in {<<c>> : c \in Names}
    /\ staged = [exists |-> TRUE, cols |-> original_cols, rows |-> <<>>]
    /\ df = [cols |-> original_cols, rows |-> <<>>]
    /\ LoaderIdle
    /\ TransformIdle
    /\ ValidatorIdle

NextNorm ==
    \/ NormalizeCols
    \/ MapCols

SpecNorm == InitNorm /\ [][NextNorm]_vars

----------------------------------------------------------------------------
(* The column mapping on a header of several names: pd.read_csv hands over *)
(* pairwise distinct column names                                          *)

ColAlphabet == {"a", "A", "_", "-"}

ColNames == SeqsUpTo(ColAlphabet, MaxColNameLen) \ {<<>>}

Distinct(s) == \A j, k \in 1..Len(s) : j # k => s[j] # s[k]

Headers(n) == {h \in SeqsUpTo(ColNames, n) : h # <<>> /\ Distinct(h)}

InitCols ==
    /\ LoaderEnvIdle
    /\ pc = "normalize"
    /\ original_cols \in Headers(MaxCols)
    /\ staged = [exists |-> TRUE, cols |-> original_cols, rows |-> <<>>]
    /\ df = [cols |-> original_cols, rows |-> <<>>]
    /\ LoaderIdle
    /\ TransformIdle
    /\ ValidatorIdle

NextCols ==
    \/ NormalizeCols
    \/ MapCols

SpecCols == InitCols /\ [][NextCols]_vars

----------------------------------------------------------------------------
(* Feature Transform: transform.py, transform_data *)

Missing == <<>>     \* a NaN cell of a numeric column; a value v is <<v>>

\* tenure values around every edge of the bins
TenureValues == {-3, -2, -1, 0, 1, 11, 12, 13, 35, 36, 37, 59, 60, 61, 72}

TenureCells == {Missing} \cup {<<t>> : t \in TenureValues}

\* bins = [-1, 12, 36, 60, np.inf] and labels, lines 36-37
bins == <<-1, 12, 36, 60>>
labels == <<"New", "Regular", "Loyal", "Champion">>

RECURSIVE Insert(_, _)
Insert(x, s) ==
    IF s = <<>> THEN <<x>>
    ELSE IF x <= s[1] THEN <<x>> \o s ELSE <<s[1]>> \o Insert(x, Tail(s))

RECURSIVE Sort(_)
Sort(s) == IF s = <<>> THEN <<>> ELSE Insert(s[1], Sort(Tail(s)))

\* the non-missing values of a column
NotNull(col) ==
    LET cells == SelectSeq(col, LAMBDA c : c # Missing)
    IN  [k \in 1..Len(cells) |-> cells[k][1]]

\* the lower of the two middle values for an even count
median_LowerMiddle(col) ==
    LET v == Sort(NotNull(col))
        n == Len(v)
    IN  IF n = 0 THEN Missing ELSE <<v[(n + 1) \div 2]>>

\* Series.median(): the middle of the sorted non-missing values, the mean of the
\* two middle ones for an even count, NaN when there is none
median(col) ==
    LET v == Sort(NotNull(col))
        n == Len(v)
    IN  IF n = 0 THEN Missing
        ELSE IF n % 2 = 1 THEN <<v[(n + 1) \div 2]>>
        ELSE <<(v[n \div 2] + v[(n \div 2) + 1]) \div 2>>

\* Series.fillna(value): missing cells take the value (NaN fills nothing)
fillna(col, value) == [k \in 1..Len(col) |-> IF col[k] = Missing THEN value ELSE col[k]]

\* pd.cut(x, bins=bins, labels=labels) of one cell in half units: the intervals
\* are open on the left and closed on the right; a value in none of them, or a
\* missing one, gets NaN
cut(cell) ==
    IF cell = Missing THEN NULL
    ELSE LET x == cell[1]
         IN  IF x <= 2 * bins[1] THEN NULL
             ELSE IF x <= 2 * bins[2] THEN labels[1]
             ELSE IF x <= 2 * bins[3] THEN labels[2]
             ELSE IF x <= 2 * bins[4] THEN labels[3]
             ELSE labels[4]

\* a field of the raw CSV that is no number, such as " "
Unparsable == <<0, 0>>

\* what read_csv makes of a numeric column: a value v is held as 2 * v
Halves(col) ==
    [k \in 1..Len(col) |->
        IF col[k] = Missing \/ col[k] = Unparsable THEN col[k] ELSE <<2 * col[k][1]>>]

\* pd.to_numeric(col, errors="coerce"): what does not parse becomes NaN
to_numeric(col) ==
    [k \in 1..Len(col) |-> IF col[k] = Unparsable THEN Missing ELSE col[k]]

\* np.where(x < 30, "Low", np.where(x <= 70, "Medium", "High")) of one cell in
\* half units; both comparisons are False for NaN
segment(cell) ==
    IF cell # Missing /\ cell[1] < 2 * 30 THEN "Low"
    ELSE IF cell # Missing /\ cell[1] <= 2 * 70 THEN "Medium"
    ELSE "High"

\* Contract strings
MonthToMonth == <<"m","o","n","t","h","-","t","o","-","m","o","n","t","h">>
OneYear == <<"o","n","e"," ","y","e","a","r">>
TwoYear == <<"t","w","o"," ","y","e","a","r">>
Unknown == <<"U","n","k","n","o","w","n">>
NanStr == <<"n","a","n">>

RECURSIVE LStripSpace(_)
LStripSpace(s) == IF s # <<>> /\ s[1] = " " THEN LStripSpace(Tail(s)) ELSE s

RECURSIVE RStripSpace(_)
RStripSpace(s) ==
    IF s # <<>> /\ s[Len(s)] = " " THEN RStripSpace(SubSeq(s, 1, Len(s) - 1)) ELSE s

\* Faulty variant of contract_norm: the string is not stripped
contract_norm_NoStrip(cell) == LowerStr(IF cell = Missing THEN NanStr ELSE cell)

\* df["Contract"].astype(str).str.lower().str.strip() of one cell; str(NaN) is "nan"
contract_norm(cell) ==
    LET str == IF cell = Missing THEN NanStr ELSE cell
    IN  RStripSpace(LStripSpace(LowerStr(str)))

\* Series.map(contract_map).fillna(-1).astype(int) of one normalized cell
contract_code(norm) ==
    IF norm = MonthToMonth THEN 0
    ELSE IF norm = OneYear THEN 1
    ELSE IF norm = TwoYear THEN 2
    ELSE -1

\* a column is of dtype object when it holds a string
IsObject(col) == \E k \in 1..Len(col) : col[k] # Missing

Values(col) == {col[k] : k \in 1..Len(col)}

NullCount(col) == Cardinality({k \in 1..Len(col) : col[k] = Missing})

\* line 11: os.makedirs(staged_dir, exist_ok=True)
TMakeDirs ==
    /\ tpc = "start"
    /\ staged_dir' = TRUE
    /\ tpc' = "read"
    /\ UNCHANGED <<loaderVars, validatorVars, rawVars, frameVars, staged_data, tresult>>

\* line 14: the columns as read; pd.read_csv raises when the file does not exist
TReadCsv ==
    /\ tpc = "read"
    /\ IF raw_exists
       THEN /\ tenure' = Halves(raw_tenure)
            /\ monthly' = Halves(raw_monthly)
            /\ total' = Halves(raw_total)
            /\ contract' = raw_contract
            /\ tpc' = "coerce"
            /\ UNCHANGED tresult
       ELSE /\ tpc' = "done"
            /\ tresult' = "raised"
            /\ UNCHANGED <<tenure, monthly, total, contract>>
    /\ UNCHANGED <<loaderVars, validatorVars, rawVars, tenure_group,
                   monthly_charge_segment, contract_type_code, staged_dir, staged_data>>

\* line 20
CoerceTotal ==
    /\ tpc = "coerce"
    /\ total' = to_numeric(total)
    /\ tpc' = "fill"
    /\ UNCHANGED <<loaderVars, validatorVars, rawVars, tenure, monthly, contract,
                   tenure_group, monthly_charge_segment, contract_type_code, staged_dir,
                   staged_data, tresult>>

\* lines 23-25, for col = "tenure"
FillTenure ==
    /\ tpc = "fill"
    /\ tenure' = fillna(tenure, median(tenure))
    /\ tpc' = "fill_monthly"
    /\ UNCHANGED <<loaderVars, validatorVars, rawVars, monthly, total, contract,
                   tenure_group, monthly_charge_segment, contract_type_code, staged_dir,
                   staged_data, tresult>>

\* lines 23-25, for col = "MonthlyCharges"
FillMonthly ==
    /\ tpc = "fill_monthly"
    /\ monthly' = fillna(monthly, median(monthly))
    /\ tpc' = "fill_total"
    /\ UNCHANGED <<loaderVars, validatorVars, rawVars, tenure, total, contract,
                   tenure_group, monthly_charge_segment, contract_type_code, staged_dir,
                   staged_data, tresult>>

\* lines 23-25, for col = "TotalCharges"
FillTotal ==
    /\ tpc = "fill_total"
    /\ total' = fillna(total, median(total))
    /\ tpc' = "fill_cat"
    /\ UNCHANGED <<loaderVars, validatorVars, rawVars, tenure, monthly, contract,
                   tenure_group, monthly_charge_segment, contract_type_code, staged_dir,
                   staged_data, tresult>>

\* lines 28-29: the columns of dtype object get "Unknown" for a missing value
FillCategorical ==
    /\ tpc = "fill_cat"
    /\ contract' = IF IsObject(contract) THEN fillna(contract, Unknown) ELSE contract
    /\ tpc' = "cut"
    /\ UNCHANGED <<loaderVars, validatorVars, rawVars, tenure, monthly, total,
                   tenure_group, monthly_charge_segment, contract_type_code, staged_dir,
                   staged_data, tresult>>

\* line 38
CutTenure ==
    /\ tpc = "cut"
    /\ tenure_group' = [k \in 1..Len(tenure) |-> cut(tenure[k])]
    /\ tpc' = "segment"
    /\ UNCHANGED <<loaderVars, validatorVars, rawVars, tenure, monthly, total, contract,
                   monthly_charge_segment, contract_type_code, staged_dir, staged_data,
                   tresult>>

\* lines 41-44
SegmentMonthly ==
    /\ tpc = "segment"
    /\ monthly_charge_segment' = [k \in 1..Len(monthly) |-> segment(monthly[k])]
    /\ tpc' = "contract"
    /\ UNCHANGED <<loaderVars, validatorVars, rawVars, tenure, monthly, total, contract,
                   tenure_group, contract_type_code, staged_dir, staged_data, tresult>>

\* lines 56-63
ContractCode ==
    /\ tpc = "contract"
    /\ contract_type_code' =
          [k \in 1..Len(contract) |-> contract_code(contract_norm(contract[k]))]
    /\ tpc' = "write"
    /\ UNCHANGED <<loaderVars, validatorVars, rawVars, tenure, monthly, total, contract,
                   tenure_group, monthly_charge_segment, staged_dir, staged_data, tresult>>

\* the row of the staged CSV as the loader's cell: NaN when a field is missing
StagedCell(k) ==
    IF \/ tenure[k] = Missing \/ monthly[k] = Missing \/ total[k] = Missing
       \/ tenure_group[k] = NULL
    THEN NULL ELSE "x"

\* lines 76-80: df.to_csv(staged_path, index=False) and the return
WriteStaged ==
    /\ tpc = "write"
    /\ staged' = [exists |-> TRUE, cols |-> StagedHeader,
                  rows |-> [k \in 1..Len(tenure) |-> StagedCell(k)]]
    /\ staged_data' =
          [nulls |-> NullCount(tenure) + NullCount(monthly) + NullCount(total),
           tenure_group |-> Values(tenure_group),
           monthly_charge_segment |-> Values(monthly_charge_segment),
           contract_type_code |-> Values(contract_type_code)]
    /\ tpc' = "done"
    /\ tresult' = "returned"
    /\ UNCHANGED <<url, key, batch_size, max_retries, backoff_factor, pc, supabase,
                   colVars, loopVars, effectVars, result, validatorVars, rawVars,
                   frameVars, staged_dir>>

\* the loader and the validator stand still, no staged file is there yet
StagesIdle ==
    /\ LoaderEnvIdle
    /\ pc = "idle"
    /\ staged = NoFile
    /\ original_cols = <<>>
    /\ df = [cols |-> <<>>, rows |-> <<>>]
    /\ LoaderIdle
    /\ ValidatorIdle
    /\ staged_data = NoData

\* a column of n cells that all hold c
Filled(n, c) == [k \in 1..n |-> c]

InitTransform ==
    /\ StagesIdle
    /\ tpc = "start"
    /\ raw_exists = TRUE
    /\ staged_dir \in BOOLEAN
    /\ raw_tenure \in SeqsUpTo(TenureCells, MaxTenureRows)
    /\ raw_monthly = Filled(Len(raw_tenure), <<30>>)
    /\ raw_total = Filled(Len(raw_tenure), <<30>>)
    /\ raw_contract = Filled(Len(raw_tenure), OneYear)
    /\ FrameIdle

NextTransform ==
    \/ TMakeDirs
    \/ TReadCsv
    \/ CoerceTotal
    \/ FillTenure
    \/ FillMonthly
    \/ FillTotal
    \/ FillCategorical
    \/ CutTenure
    \/ SegmentMonthly
    \/ ContractCode
    \/ WriteStaged

SpecTransform == InitTransform /\ [][NextTransform]_vars

----------------------------------------------------------------------------
(* The imputation of the three numeric columns: transform_data on datasets *)
(* whose numeric columns have missing and unparsable cells                 *)

\* the raw rows: a tenure, a monthly charge and a total charge field each
ImputeRows(n) ==
    SeqsUpTo({Missing, <<1>>, <<4>>} \X {Missing, <<3>>} \X {Unparsable, <<3>>}, n)

InitImpute ==
    /\ StagesIdle
    /\ tpc = "start"
    /\ raw_exists = TRUE
    /\ staged_dir = TRUE
    /\ \E rows \in ImputeRows(MaxImputeRows) :
          /\ raw_tenure = [k \in 1..Len(rows) |-> rows[k][1]]
          /\ raw_monthly = [k \in 1..Len(rows) |-> rows[k][2]]
          /\ raw_total = [k \in 1..Len(rows) |-> rows[k][3]]
          /\ raw_contract = Filled(Len(rows), OneYear)
    /\ FrameIdle

SpecImpute == InitImpute /\ [][NextTransform]_vars

----------------------------------------------------------------------------
(* Validator: validate.py, run_validation *)

NoCount == <<>>     \* a row count of None; a count n is <<n>>

\* validation_results[k] = v
Put(d, k, v) == [x \in DOMAIN d \cup {k} |-> IF x = k THEN v ELSE d[x]]

\* what supabase.table(...).select("id", count="exact").execute() may do: answer
\* with the count, raise, or answer with something that holds no count
QueryOutcomes == {"count", "raises", "no_count"}

\* Faulty variant of supabase_row_count: a count of 0 where there is none
supabase_row_count_Zero(outcome) ==
    IF get_supabase_client(url, key) # None /\ outcome = "count"
    THEN <<Len(remote)>> ELSE <<0>>

\* lines 26-44: None without a client, None when the query raises, None when the
\* response holds neither a count nor a list
supabase_row_count(outcome) ==
    IF get_supabase_client(url, key) = None THEN NoCount
    ELSE IF outcome = "count" THEN <<Len(remote)>>
    ELSE NoCount

\* lines 95 and 105
expected_tenure_groups == {"New", "Regular", "Loyal", "Champion"}
expected_segments == {"Low", "Medium", "High"}

\* the script is run (lines 138-139) once transform_data is over and the loader
\* is not running
RunValidation ==
    /\ vpc = "idle"
    /\ tpc = "done"
    /\ pc \in {"idle", "done"}
    /\ vpc' = "start"
    /\ UNCHANGED <<loaderVars, transformVars, validation_results, queries, vresult>>

\* lines 56-65: without the staged file the function returns
VStart ==
    /\ vpc = "start"
    /\ IF ~staged.exists
       THEN vpc' = "done" /\ vresult' = "returned"
       ELSE vpc' = "missing" /\ UNCHANGED vresult
    /\ UNCHANGED <<loaderVars, transformVars, validation_results, queries>>

\* lines 70-73
VMissingValues ==
    /\ vpc = "missing"
    /\ validation_results' = Put(validation_results, "missing_values", staged_data.nulls = 0)
    /\ vpc' = "local"
    /\ UNCHANGED <<loaderVars, transformVars, queries, vresult>>

\* lines 80-81
VLocalRowCount ==
    /\ vpc = "local"
    /\ validation_results' = Put(validation_results, "local_row_count", Len(staged.rows))
    /\ vpc' = "remote"
    /\ UNCHANGED <<loaderVars, transformVars, queries, vresult>>

\* lines 87-88
VSupabaseRowCount ==
    /\ vpc = "remote"
    /\ \E outcome \in QueryOutcomes :
          /\ validation_results' =
                Put(validation_results, "supabase_row_count", supabase_row_count(outcome))
          /\ queries' = IF get_supabase_client(url, key) = None THEN queries
                        ELSE Append(queries, outcome)
    /\ vpc' = "match"
    /\ UNCHANGED <<loaderVars, transformVars, vresult>>

\* line 92: local_row_count == sb_count
VRowCountMatch ==
    /\ vpc = "match"
    /\ validation_results' =
          Put(validation_results, "row_count_match",
              <<validation_results["local_row_count"]>>
                  = validation_results["supabase_row_count"])
    /\ vpc' = "tenure"
    /\ UNCHANGED <<loaderVars, transformVars, queries, vresult>>

\* lines 95-100
VTenureGroups ==
    /\ vpc = "tenure"
    /\ validation_results' =
          Put(validation_results, "tenure_group_ok",
              expected_tenure_groups = staged_data.tenure_group)
    /\ vpc' = "segment"
    /\ UNCHANGED <<loaderVars, transformVars, queries, vresult>>

\* lines 105-110
VSegments ==
    /\ vpc = "segment"
    /\ validation_results' =
          Put(validation_results, "monthly_segment_ok",
              expected_segments = staged_data.monthly_charge_segment)
    /\ vpc' = "contract"
    /\ UNCHANGED <<loaderVars, transformVars, queries, vresult>>

\* lines 115-116
VContractCodes ==
    /\ vpc = "contract"
    /\ validation_results' =
          Put(validation_results, "contract_code_ok",
              staged_data.contract_type_code \subseteq {0, 1, 2})
    /\ vpc' = "summary"
    /\ UNCHANGED <<loaderVars, transformVars, queries, vresult>>

\* lines 121-135: the summary reads the results and the function returns
VSummary ==
    /\ vpc = "summary"
    /\ {"missing_values", "row_count_match", "tenure_group_ok", "monthly_segment_ok",
        "contract_code_ok"} \subseteq DOMAIN validation_results
    /\ vpc' = "done"
    /\ vresult' = "returned"
    /\ UNCHANGED <<loaderVars, transformVars, validation_results, queries>>

NextValidate ==
    \/ VStart
    \/ VMissingValues
    \/ VLocalRowCount
    \/ VSupabaseRowCount
    \/ VRowCountMatch
    \/ VTenureGroups
    \/ VSegments
    \/ VContractCodes
    \/ VSummary

----------------------------------------------------------------------------
(* The contract code: transform_data on datasets of contracts, then the *)
(* validator on what it staged                                          *)

\* contracts as they come: the three known ones, in other case or padded, a
\* missing one and one that is none of them
ContractCells ==
    {Missing, Unknown, MonthToMonth, OneYear, TwoYear,
     <<"O","n","e"," ","Y","e","a","r">>,
     <<" ">> \o TwoYear \o <<" ">>,
     <<"o","n","e","y","e","a","r">>}

InitContract ==
    /\ StagesIdle
    /\ tpc = "start"
    /\ raw_exists = TRUE
    /\ staged_dir = TRUE
    /\ raw_contract \in SeqsUpTo(ContractCells, MaxContractRows)
    /\ raw_tenure = Filled(Len(raw_contract), <<1>>)
    /\ raw_monthly = Filled(Len(raw_contract), <<30>>)
    /\ raw_total = Filled(Len(raw_contract), <<30>>)
    /\ FrameIdle

NextContract ==
    \/ NextTransform
    \/ RunValidation
    \/ NextValidate

SpecContract == InitContract /\ [][NextContract]_vars

----------------------------------------------------------------------------
(* The Validator alone: run_validation on a staged file and a remote table *)

\* what the staged file may hold in its tenure_group, monthly_charge_segment
\* and contract_type_code columns
TenureGroupSets ==
    {expected_tenure_groups, expected_tenure_groups \ {"Champion"},
     expected_tenure_groups \cup {NULL}, {"New"}}
SegmentSets == {expected_segments, {"Low", "High"}, {"High"}}
CodeSets == SUBSET {-1, 0, 1, 2}

\* the columns of a staged file of n rows
StagedData(n) ==
    {d \in [nulls : 0..Min(n, 1), tenure_group : TenureGroupSets,
            monthly_charge_segment : SegmentSets, contract_type_code : CodeSets] :
        /\ n >= Cardinality(d.tenure_group)
        /\ n >= Cardinality(d.monthly_charge_segment)
        /\ n >= Cardinality(d.contract_type_code)
        /\ d.contract_type_code # {}}

\* the remote table with n rows
RemoteRows(n) ==
    ToRecords([cols |-> StagedHeader, rows |-> Filled(n, "x")], 0, n)

InitValidate ==
    /\ url \in EnvValues
    /\ key \in EnvValues
    /\ batch_size = 1
    /\ max_retries = 0
    /\ backoff_factor = 2
    /\ pc = "idle"
    /\ original_cols = <<>>
    /\ df = [cols |-> <<>>, rows |-> <<>>]
    /\ supabase = "unbound"
    /\ normalized = <<>>
    /\ i = Unbound
    /\ records = <<>>
    /\ attempt = 0
    /\ batches = <<>>
    /\ calls = <<>>
    /\ sleeps = <<>>
    /\ fallback = NoFile
    /\ status = <<>>
    /\ result = "running"
    /\ \E n \in 0..MaxStagedRows :
          \/ staged = NoFile /\ staged_data = NoData /\ n = 0
          \/ /\ n = 0
             /\ staged = [exists |-> TRUE, cols |-> StagedHeader, rows |-> <<>>]
             /\ staged_data = NoData
          \/ /\ n > 0
             /\ staged_data \in StagedData(n)
             /\ staged = [exists |-> TRUE, cols |-> StagedHeader,
                          rows |-> [k \in 1..n |->
                                      IF k <= staged_data.nulls THEN NULL ELSE "x"]]
    /\ \E m \in 0..MaxStagedRows : remote = RemoteRows(m)
    /\ tpc = "idle"
    /\ raw_exists = FALSE
    /\ raw_tenure = <<>>
    /\ raw_monthly = <<>>
    /\ raw_total = <<>>
    /\ raw_contract = <<>>
    /\ FrameIdle
    /\ staged_dir = TRUE
    /\ vpc = "start"
    /\ validation_results = <<>>
    /\ queries = <<>>
    /\ vresult = "running"

SpecValidate == InitValidate /\ [][NextValidate]_vars

----------------------------------------------------------------------------
(* The three stages in turn: transform_data on a raw file that may not    *)
(* exist, then load_to_supabase on what was staged, then run_validation   *)

\* the loader script is run (load.py, lines 238-243) once transform_data is over
RunLoader ==
    /\ pc = "idle"
    /\ tpc = "done"
    /\ vpc = "idle"
    /\ pc' = "start"
    /\ UNCHANGED <<envVars, supabase, colVars, loopVars, effectVars, result,
                   transformVars, validatorVars>>

InitPipeline ==
    /\ url \in EnvValues
    /\ key \in EnvValues
    /\ staged = NoFile
    /\ batch_size \in 1..MaxBatch
    /\ max_retries \in 0..MaxRetries
    /\ backoff_factor = 2
    /\ pc = "idle"
    /\ original_cols = <<>>
    /\ df = [cols |-> <<>>, rows |-> <<>>]
    /\ LoaderIdle
    /\ ValidatorIdle
    /\ tpc = "start"
    /\ raw_exists \in BOOLEAN
    /\ staged_dir = FALSE
    /\ staged_data = NoData
    /\ \E n \in 0..MaxRows :
          /\ ~raw_exists => n = 0
          /\ raw_tenure \in {Filled(n, <<1>>),
                            [k \in 1..n |-> IF k = n THEN <<-1>> ELSE <<1>>]}
          /\ raw_monthly = Filled(n, <<30>>)
          /\ raw_total = Filled(n, <<30>>)
          /\ raw_contract = Filled(n, OneYear)
    /\ FrameIdle

NextPipeline ==
    \/ NextTransform
    \/ RunLoader
    \/ Next
    \/ RunValidation
    \/ NextValidate

SpecPipeline == InitPipeline /\ [][NextPipeline]_vars

----------------------------------------------------------------------------
(* What the properties below speak about *)

Configured == url = "set" /\ key = "set"

N == Len(staged.rows)

Ceil(n, b) == (n + b - 1) \div b

\* the header of the staged file as the remote table names its columns
MappedStagedHeader ==
    << <<"t","e","n","u","r","e">>,
       <<"m","o","n","t","h","l","y","c","h","a","r","g","e","s">>,
       <<"t","e","n","u","r","e","_","g","r","o","u","p">> >>

\* the local copy holding every row of the column-mapped staged dataset, in order
WholeLocalCopy ==
    [exists |-> TRUE,
     cols |-> MappedStagedHeader,
     rows |-> [k \in 1..N |-> IF staged.rows[k] = NULL THEN "" ELSE staged.rows[k]]]

\* row k of the staged dataset as the remote store is sent it
RecordOfRow(k) ==
    [cols |-> MappedStagedHeader,
     cell |-> IF staged.rows[k] = NULL THEN None ELSE staged.rows[k]]

\* the rows of batch b: a contiguous slice of at most batch_size rows
RowsOfBatch(b) == ((b - 1) * batch_size + 1)..Min(b * batch_size, N)

RECURSIVE Flatten(_)
Flatten(ss) == IF ss = <<>> THEN <<>> ELSE ss[1] \o Flatten(Tail(ss))

\* a message that carries a schema-mismatch signature
SchemaMessage(err) == err \cap Signatures # {}

SchemaCall(c) == ~c.ok /\ SchemaMessage(c.err)
TransientCall(c) == ~c.ok /\ ~SchemaMessage(c.err)

SchemaDetected == \E n \in 1..Len(calls) : SchemaCall(calls[n])

CallsOf(b) == SelectSeq(calls, LAMBDA c : c.batch = b)
SleepsOf(b) == SelectSeq(sleeps, LAMBDA z : z.batch = b)
TransientFailures(b) == Len(SelectSeq(CallsOf(b), TransientCall))

----------------------------------------------------------------------------
(* C1: once an insert attempt (first or retry, answered as an error response  *)
(* or raised) carries a schema mismatch, it is the last insert ever made, the *)
(* local copy holds all N rows of the column-mapped dataset in order, and the *)
(* loader has returned normally.                                              *)
C1_SchemaAbort ==
    \A n \in 1..Len(calls) :
        SchemaCall(calls[n]) =>
            /\ n = Len(calls)
            /\ pc = "done"
            /\ result = "returned"
            /\ fallback = WholeLocalCopy

\* a retry of batch 2 of 3 meets the schema mismatch after batch 1 was inserted
C1_Witness ==
    /\ pc = "done"
    /\ N = 3 /\ batch_size = 1
    /\ remote # <<>>
    /\ \E n \in 1..Len(calls) :
          SchemaCall(calls[n]) /\ calls[n].batch = 2 /\ calls[n].attempt >= 1
    /\ fallback = WholeLocalCopy

(* C2: with either credential absent no insert is ever attempted, and when *)
(* the loader has ended on an existing staged file the local copy holds    *)
(* the whole column-mapped dataset and the loader has returned.            *)
C2_Unconfigured ==
    ~Configured =>
        /\ supabase # "client"
        /\ calls = <<>> /\ batches = <<>> /\ remote = <<>> /\ sleeps = <<>>
        /\ (pc = "done" /\ staged.exists) =>
              (fallback = WholeLocalCopy /\ result = "returned")

C2_Witness ==
    /\ url = "set" /\ key = "unset"
    /\ pc = "done"
    /\ N = MaxRows
    /\ fallback = WholeLocalCopy
    /\ calls = <<>>

(* C3, as claimed: when the loader has ended on an existing staged file and  *)
(* the store was unconfigured, or every insert attempt failed with a         *)
(* non-schema error, or a schema mismatch was met, the local copy holds the  *)
(* whole dataset.                                                            *)
C3_Original ==
    (/\ pc = "done"
     /\ staged.exists
     /\ \/ ~Configured
        \/ calls # <<>> /\ \A n \in 1..Len(calls) : TransientCall(calls[n])
        \/ SchemaDetected)
    => fallback = WholeLocalCopy

(* C3, amended: when the loader has ended on an existing staged file, the    *)
(* local copy holds the whole dataset if the store was unconfigured or a     *)
(* schema mismatch was met, and otherwise (every failure being a non-schema  *)
(* error) no local copy was written at all.                                  *)
C3_Amended ==
    (pc = "done" /\ staged.exists) =>
        /\ result = "returned"
        /\ IF ~Configured \/ SchemaDetected
           THEN fallback = WholeLocalCopy
           ELSE fallback = NoFile

\* every attempt of every batch failed with a non-schema error
C3_Witness ==
    /\ pc = "done"
    /\ Configured
    /\ N = MaxRows
    /\ calls # <<>>
    /\ \A n \in 1..Len(calls) : TransientCall(calls[n])
    /\ fallback = NoFile

(* C4: a batch gets at most max_retries + 1 attempts; it is given up exactly *)
(* when max_retries + 1 of them failed with non-schema errors, and then      *)
(* nothing of it was inserted; the loop goes on with the next batch, which   *)
(* holds the rows it would have held anyway and starts from attempt 0; with  *)
(* no schema mismatch the loader ends having started every batch.            *)
C4_Exhaustion ==
    /\ \A b \in 1..Len(status) :
          /\ Len(CallsOf(b)) <= max_retries + 1
          /\ (status[b] = "EXHAUSTED") <=> (TransientFailures(b) = max_retries + 1)
          /\ status[b] = "EXHAUSTED" =>
                /\ \A n \in 1..Len(calls) : calls[n].batch = b => ~calls[n].ok
                /\ pc # "insert" \/ b < Len(status)
                /\ (b < Ceil(N, batch_size) /\ pc = "done") => b < Len(status)
          /\ batches[b] = [k \in 1..Cardinality(RowsOfBatch(b)) |->
                              RecordOfRow((b - 1) * batch_size + k)]
          /\ CallsOf(b) # <<>> => CallsOf(b)[1].attempt = 0
    /\ (pc = "done" /\ staged.exists /\ Configured /\ ~SchemaDetected) =>
          /\ Len(status) = Ceil(N, batch_size)
          /\ \A b \in 1..Len(status) : CallsOf(b) # <<>>

\* batch 1 was given up after two retries and batch 2 was inserted after it
C4_Witness ==
    /\ pc = "done"
    /\ max_retries = 2
    /\ Len(status) >= 2
    /\ status[1] = "EXHAUSTED"
    /\ Len(CallsOf(1)) = 3
    /\ status[2] = "SUCCEEDED"

(* C5: the batches formed are contiguous slices of 1..batch_size rows whose *)
(* concatenation is a prefix of the dataset in row order; a run that meets  *)
(* no schema mismatch ends with exactly ceil(N / batch_size) batches that   *)
(* make up the whole dataset; an empty dataset forms no batch and makes no  *)
(* insert.                                                                  *)
C5_Partition ==
    /\ \A b \in 1..Len(batches) :
          Len(batches[b]) >= 1 /\ Len(batches[b]) <= batch_size
    /\ LET flat == Flatten(batches)
       IN  /\ Len(flat) <= N
           /\ \A k \in 1..Len(flat) : flat[k] = RecordOfRow(k)
    /\ Len(batches) <= Ceil(N, batch_size)
    /\ (pc = "done" /\ staged.exists /\ Configured /\ ~SchemaDetected) =>
          /\ Len(batches) = Ceil(N, batch_size)
          /\ Len(Flatten(batches)) = N
    /\ N = 0 =>
          /\ batches = <<>> /\ calls = <<>>
          /\ pc = "done" => result = "returned"

\* three rows in batches of two: a full batch and a partial one
C5_Witness ==
    /\ pc = "done"
    /\ Configured
    /\ N = 3 /\ batch_size = 2
    /\ Len(batches) = 2
    /\ Len(batches[2]) = 1
    /\ staged.rows[1] # staged.rows[2]

(* C6: the sleeps of a batch are backoff_factor^1, backoff_factor^2, ... one *)
(* per failed attempt but none after the attempt that uses up the retries,   *)
(* and the attempts of every batch are numbered from 0.                      *)
C6_Backoff ==
    /\ \A z \in 1..Len(sleeps) : sleeps[z].batch \in 1..Len(status)
    /\ \A b \in 1..Len(status) :
          /\ Len(SleepsOf(b)) = Min(TransientFailures(b), max_retries)
          /\ \A j \in 1..Len(SleepsOf(b)) : SleepsOf(b)[j].wait = Pow(backoff_factor, j)
          /\ \A j \in 1..Len(CallsOf(b)) : CallsOf(b)[j].attempt = j - 1
          /\ b = Len(status) /\ pc = "insert" => attempt = Len(CallsOf(b))

\* batch 1 slept twice and was given up, batch 2 slept again from the first wait
C6_Witness ==
    /\ max_retries = 2
    /\ Len(status) >= 2
    /\ status[1] = "EXHAUSTED"
    /\ Len(SleepsOf(1)) = 2
    /\ SleepsOf(1)[2].wait = backoff_factor * backoff_factor
    /\ Len(SleepsOf(2)) >= 1
    /\ SleepsOf(2)[1].wait = backoff_factor

----------------------------------------------------------------------------
UsesUpper(name) == \E j \in 1..Len(name) : name[j] \in Upper

HasSeparator(name) == \E j \in 1..Len(name) : name[j] = "_"

(* C7: a column whose original name has an upper-case letter is mapped to a *)
(* name without any underscore.                                             *)
C7_NoSeparator ==
    pc = "check_client" =>
        \A k \in 1..Len(original_cols) :
            UsesUpper(original_cols[k]) => ~HasSeparator(df.cols[k])

\* a camel-case boundary and punctuation both put separators in the canonical name
C7_Witness ==
    /\ pc = "check_client"
    /\ UsesUpper(original_cols[1])
    /\ HasSeparator(normalized[1])
    /\ Len(df.cols[1]) >= 2

(* C8: a column whose original name has no upper-case letter is mapped to a *)
(* name that the normalizer and the compatibility rule map to itself.       *)
C8_Idempotent ==
    pc = "check_client" =>
        \A k \in 1..Len(original_cols) :
            ~UsesUpper(original_cols[k]) =>
                DbName(df.cols[k], _normalize_col(df.cols[k])) = df.cols[k]

\* a name that normalization changes and that keeps a separator
C8_Witness ==
    /\ pc = "check_client"
    /\ ~UsesUpper(original_cols[1])
    /\ df.cols[1] # original_cols[1]
    /\ HasSeparator(df.cols[1])

(* C9: pairwise distinct original column names are mapped to pairwise *)
(* distinct remote names.                                             *)
C9_Injective ==
    pc = "check_client" =>
        \A j, k \in 1..Len(original_cols) :
            original_cols[j] # original_cols[k] => df.cols[j] # df.cols[k]

(* C10: every integer tenure t gets "New" when t <= 12, "Regular" when      *)
(* 12 < t <= 36, "Loyal" when 36 < t <= 60 and "Champion" when t > 60,      *)
(* values at or below zero included.                                        *)
C10_TenureGroup ==
    tpc = "done" =>
        \A k \in 1..Len(raw_tenure) :
            raw_tenure[k] # Missing =>
                LET t == raw_tenure[k][1]
                IN  tenure_group[k] =
                        IF t <= 12 THEN "New"
                        ELSE IF t <= 36 THEN "Regular"
                        ELSE IF t <= 60 THEN "Loyal"
                        ELSE "Champion"

----------------------------------------------------------------------------
(* Imputation: C11 *)

\* the fields of a raw column that hold a number
Parsed(col) == {k \in 1..Len(col) : col[k] # Missing /\ col[k] # Unparsable}

\* the k-th smallest of the numbers of a raw column
Kth(col, k) ==
    CHOOSE x \in {col[j][1] : j \in Parsed(col)} :
        /\ Cardinality({j \in Parsed(col) : col[j][1] < x}) < k
        /\ Cardinality({j \in Parsed(col) : col[j][1] <= x}) >= k

\* twice the median of the numbers of a raw column that has one
TwiceMedian(col) ==
    LET n == Cardinality(Parsed(col))
    IN  IF n % 2 = 1 THEN 2 * Kth(col, (n + 1) \div 2)
        ELSE Kth(col, n \div 2) + Kth(col, (n \div 2) + 1)

HasNull(col) == Parsed(col) # DOMAIN col
HasValue(col) == Parsed(col) # {}

\* the column out is the column raw with the median in each null cell
Imputed(raw, out) ==
    \A k \in 1..Len(raw) :
        /\ out[k] # Missing
        /\ k \in Parsed(raw) => out[k] = <<2 * raw[k][1]>>
        /\ k \notin Parsed(raw) => out[k] = <<TwiceMedian(raw)>>

Transformed == tpc = "done" /\ tresult = "returned"

(* C11 as stated: when tenure, monthly charges and total charges each have a *)
(* null cell (an unparsable total included), the transformed columns hold no *)
(* null, each formerly null cell holds the median of the column's non-null   *)
(* values and every other cell is unchanged.                                 *)
C11_Original ==
    (Transformed /\ HasNull(raw_tenure) /\ HasNull(raw_monthly) /\ HasNull(raw_total)) =>
        /\ Imputed(raw_tenure, tenure)
        /\ Imputed(raw_monthly, monthly)
        /\ Imputed(raw_total, total)

(* C11 amended: the same, for each column that has a null cell and at least *)
(* one non-null value; a column without any value keeps its nulls.          *)
C11_Amended ==
    Transformed =>
        /\ (HasNull(raw_tenure) /\ HasValue(raw_tenure)) => Imputed(raw_tenure, tenure)
        /\ (HasNull(raw_monthly) /\ HasValue(raw_monthly)) => Imputed(raw_monthly, monthly)
        /\ (HasNull(raw_total) /\ HasValue(raw_total)) => Imputed(raw_total, total)
        /\ \A k \in 1..Len(raw_tenure) :
              /\ ~HasValue(raw_tenure) => tenure[k] = Missing
              /\ ~HasValue(raw_monthly) => monthly[k] = Missing
              /\ ~HasValue(raw_total) => total[k] = Missing

\* a null tenure between the values 1 and 4 became 2.5, an unparsable total 3
C11_Witness ==
    /\ Transformed
    /\ HasNull(raw_tenure) /\ HasNull(raw_monthly) /\ HasNull(raw_total)
    /\ HasValue(raw_monthly)
    /\ \E k \in 1..Len(raw_tenure) : raw_tenure[k] = Missing /\ tenure[k] = <<5>>
    /\ \E k \in 1..Len(raw_total) : raw_total[k] = Unparsable /\ total[k] = <<6>>

----------------------------------------------------------------------------
(* Contract code: C12 *)

\* the string s, trimmed of spaces and lower-cased, reads as the string known
Reads(s, known) ==
    /\ s # Missing
    /\ \E a \in 0..Len(s) :
          /\ a + Len(known) <= Len(s)
          /\ \A j \in 1..Len(s) :
                IF j > a /\ j <= a + Len(known)
                THEN lower(s[j]) = known[j - a]
                ELSE s[j] = " "

Validated == vpc = "done" /\ vresult = "returned" /\ staged.exists

(* C12: a row's contract_type_code is 0, 1 or 2 exactly when its contract,   *)
(* lower-cased and trimmed, is "month-to-month", "one year" or "two year",   *)
(* and -1 for any other contract, a missing one included; the validator's    *)
(* contract_code_ok is true exactly when every staged code is 0, 1 or 2.     *)
C12_ContractCode ==
    /\ Transformed =>
          \A k \in 1..Len(raw_contract) :
              LET c == raw_contract[k]
                  code == contract_type_code[k]
              IN  /\ code = 0 <=> Reads(c, MonthToMonth)
                  /\ code = 1 <=> Reads(c, OneYear)
                  /\ code = 2 <=> Reads(c, TwoYear)
                  /\ code = -1 <=> ~(\/ Reads(c, MonthToMonth) \/ Reads(c, OneYear)
                                     \/ Reads(c, TwoYear))
    /\ (Transformed /\ Validated) =>
          (validation_results["contract_code_ok"]
              <=> \A k \in 1..Len(contract_type_code) : contract_type_code[k] \in {0, 1, 2})

\* a padded "two year" got 2, a missing contract -1, and the validator said no
C12_Witness ==
    /\ Transformed
    /\ Validated
    /\ \E k \in 1..Len(raw_contract) :
          raw_contract[k] = <<" ">> \o TwoYear \o <<" ">> /\ contract_type_code[k] = 2
    /\ \E k \in 1..Len(raw_contract) :
          raw_contract[k] = Missing /\ contract_type_code[k] = -1
    /\ ~validation_results["contract_code_ok"]

----------------------------------------------------------------------------
(* Validator without a remote count: C13 *)

\* the count query was made and answered with the count
CountFetched == Configured /\ queries = <<"count">>

ValidationKeys ==
    {"missing_values", "local_row_count", "supabase_row_count", "row_count_match",
     "tenure_group_ok", "monthly_segment_ok", "contract_code_ok"}

(* C13: when the remote store is not configured or its count query fails,   *)
(* run_validation records a null remote count and a false row_count_match    *)
(* and goes on: it never raises, every check is still evaluated and          *)
(* recorded with its own outcome, a failing one as false, and the run ends   *)
(* with all of them recorded.                                                *)
C13_NoRemoteCount ==
    /\ vresult # "raised"
    /\ vpc \notin {"idle", "done"} => ENABLED NextValidate
    /\ (Validated /\ ~CountFetched) =>
          /\ validation_results["supabase_row_count"] = NoCount
          /\ validation_results["row_count_match"] = FALSE
    /\ Validated =>
          /\ DOMAIN validation_results = ValidationKeys
          /\ validation_results["missing_values"] <=> staged_data.nulls = 0
          /\ validation_results["local_row_count"] = N
          /\ validation_results["tenure_group_ok"] <=>
                staged_data.tenure_group = {"New", "Regular", "Loyal", "Champion"}
          /\ validation_results["monthly_segment_ok"] <=>
                staged_data.monthly_charge_segment = {"Low", "Medium", "High"}
          /\ validation_results["contract_code_ok"] <=>
                \A c \in staged_data.contract_type_code : c \in {0, 1, 2}

\* the count query raised; no count and no match were recorded, and the checks
\* after it were recorded, some passing and some failing
C13_Witness ==
    /\ Validated
    /\ Configured
    /\ queries = <<"raises">>
    /\ Len(remote) = N
    /\ validation_results["supabase_row_count"] = NoCount
    /\ validation_results["row_count_match"] = FALSE
    /\ validation_results["missing_values"] = FALSE
    /\ validation_results["tenure_group_ok"] = TRUE
    /\ validation_results["monthly_segment_ok"] = FALSE
    /\ validation_results["contract_code_ok"] = TRUE

----------------------------------------------------------------------------
(* Missing input: C14 *)

(* C14: each of the three stages, run without its input file, returns      *)
(* without raising, makes no remote call and creates nothing on disk: no    *)
(* staged file, no fallback file and no directory.                          *)
C14_MissingInput ==
    /\ (tpc = "done" /\ ~raw_exists) =>
          /\ tresult = "returned"
          /\ ~staged_dir
          /\ ~staged.exists
    /\ (pc = "done" /\ ~staged.exists) =>
          /\ result = "returned"
          /\ supabase = "unbound" /\ calls = <<>>
          /\ fallback = NoFile
    /\ (vpc = "done" /\ ~staged.exists) =>
          /\ vresult = "returned"
          /\ queries = <<>>
          /\ validation_results = <<>>

----------------------------------------------------------------------------
(* Shape of a normalized name: C15 *)

(* C15: a normalized name holds only lower-case letters, digits and the    *)
(* separator "_", neither starts nor ends with the separator, and has no   *)
(* two separators side by side.                                            *)
C15_Shape ==
    pc \in {"map", "check_client"} =>
        \A k \in 1..Len(normalized) :
            LET name == normalized[k]
            IN  /\ \A j \in 1..Len(name) : name[j] \in Lower \cup Digits \cup {"_"}
                /\ name # <<>> => name[1] # "_" /\ name[Len(name)] # "_"
                /\ \A j \in 1..(Len(name) - 1) : ~(name[j] = "_" /\ name[j + 1] = "_")

----------------------------------------------------------------------------
(* Termination and the number of inserts: C16 *)

\* the batches the loop has not started yet
BatchesLeft == Ceil(N, batch_size) - (IF i = Unbound THEN 0 ELSE BatchNo(i, batch_size))

\* the steps load_to_supabase has before its loop, by position
StepsBeforeLoop ==
    [p \in {"start", "get_client", "read_csv", "normalize", "map", "check_client"} |->
        CASE p = "start" -> 6
          [] p = "get_client" -> 5
          [] p = "read_csv" -> 4
          [] p = "normalize" -> 3
          [] p = "map" -> 2
          [] p = "check_client" -> 1]

\* an upper bound of the steps load_to_supabase still has to take: a batch
\* takes the step that starts it and at most max_retries + 1 inserts, and the
\* loop takes one more step to end
StepsLeft ==
    IF pc = "done" THEN 0
    ELSE IF pc = "insert"
    THEN (max_retries + 1 - attempt) + BatchesLeft * (max_retries + 2) + 1
    ELSE IF pc = "for" THEN BatchesLeft * (max_retries + 2) + 1
    ELSE StepsBeforeLoop[pc] + Ceil(N, batch_size) * (max_retries + 2) + 1

(* C16: for every row count N, batch size B >= 1, retry limit R >= 0 and   *)
(* every sequence of insert outcomes, load_to_supabase terminates (every   *)
(* step lowers a bound of the steps left, which is never negative) and     *)
(* makes at most ceil(N / B) * (R + 1) insert calls.                       *)
C16_Terminates ==
    /\ [](Len(calls) <= Ceil(N, batch_size) * (max_retries + 1))
    /\ [](StepsLeft >= 0)
    /\ [][StepsLeft' < StepsLeft]_vars

\* every attempt of every batch failed: the loader returned after two batches
\* of three inserts each
C16_Witness ==
    /\ pc = "done"
    /\ result = "returned"
    /\ N = 3 /\ batch_size = 2 /\ max_retries = 2
    /\ Len(calls) = Ceil(N, batch_size) * (max_retries + 1)
    /\ Len(calls) = 6

----------------------------------------------------------------------------
(* Order of the inserts: C17 *)

\* the records of batch b as the staged dataset gives them
RecordsOfBatch(b) ==
    LET first == (b - 1) * batch_size
    IN  [k \in 1..Cardinality(RowsOfBatch(b)) |-> RecordOfRow(first + k)]

Over(b) == status[b] \in {"SUCCEEDED", "EXHAUSTED"}

(* C17: the batches are attempted in increasing order, one at a time: an    *)
(* insert for a batch is made only when every earlier batch has succeeded   *)
(* or is exhausted, no insert follows a batch's success or exhaustion for   *)
(* that batch, every attempt of a batch submits the same records, and a     *)
(* batch has at most one successful insert.                                 *)
C17_InOrder ==
    /\ \A c \in 1..Len(calls) :
          /\ calls[c].batch \in 1..Len(status)
          /\ \A d \in 1..(c - 1) : calls[d].batch <= calls[c].batch
          /\ \A b \in 1..(calls[c].batch - 1) : Over(b)
          /\ calls[c].records = RecordsOfBatch(calls[c].batch)
          /\ calls[c].ok => \A d \in (c + 1)..Len(calls) : calls[d].batch > calls[c].batch
    /\ \A b \in 1..Len(status) :
          /\ Cardinality({c \in 1..Len(calls) : calls[c].batch = b /\ calls[c].ok}) <= 1
          /\ Len(CallsOf(b)) <= max_retries + 1
          /\ status[b] = "ATTEMPTING" => b = Len(status) /\ pc = "insert"
          /\ status[b] = "EXHAUSTED" =>
                /\ Len(CallsOf(b)) = max_retries + 1
                /\ \A c \in 1..Len(calls) : calls[c].batch = b => ~calls[c].ok
          /\ status[b] = "SUCCEEDED" =>
                \E c \in 1..Len(calls) : calls[c].batch = b /\ calls[c].ok
    /\ pc = "insert" => status[Len(status)] = "ATTEMPTING"

\* a first batch exhausted after two inserts of the same two rows, a second
\* batch that succeeded on its retry
C17_Witness ==
    /\ pc = "done"
    /\ N = 3 /\ batch_size = 2 /\ max_retries = 1
    /\ status = <<"EXHAUSTED", "SUCCEEDED">>
    /\ Len(calls) = 4
    /\ calls[2].records = calls[1].records
    /\ calls[4].ok

----------------------------------------------------------------------------
(* What the remote table holds: C18 *)

LoaderReturned == pc = "done" /\ result = "returned"

\* the records of the batches that succeeded, in order
SucceededRows ==
    Flatten([b \in 1..Len(status) |->
                IF status[b] = "SUCCEEDED" THEN RecordsOfBatch(b) ELSE <<>>])

\* every batch of the dataset was started and succeeded
AllSucceeded ==
    /\ Len(status) = Ceil(N, batch_size)
    /\ \A b \in 1..Len(status) : status[b] = "SUCCEEDED"

\* the remote table after the loader: the rows of the batches that succeeded,
\* in order; an exhausted batch leaves no fallback file without a schema
\* mismatch
RemoteHoldsSucceeded ==
    (LoaderReturned /\ staged.exists) =>
        /\ remote = SucceededRows
        /\ (Configured /\ ~SchemaDetected) => fallback = NoFile
        /\ SchemaDetected => fallback = WholeLocalCopy

(* C18 as stated: with the loader the only writer of a remote table that    *)
(* was empty, the table holds exactly the rows of the batches that          *)
(* succeeded, in order, when the loader has returned, and so the            *)
(* validator's row_count_match is true exactly when every batch succeeded.  *)
C18_Original ==
    /\ RemoteHoldsSucceeded
    /\ (LoaderReturned /\ Validated) =>
          (validation_results["row_count_match"] <=> AllSucceeded)

(* C18 amended: the same about the table; row_count_match is true exactly   *)
(* when every batch succeeded and the validator's count query answered with *)
(* the table's row count.                                                   *)
C18_Amended ==
    /\ RemoteHoldsSucceeded
    /\ (LoaderReturned /\ Validated) =>
          (validation_results["row_count_match"] <=> (AllSucceeded /\ CountFetched))

\* the first batch was exhausted, the second succeeded and holds a row that
\* differs from the first one's; the validator counted one row against three
C18_Witness ==
    /\ LoaderReturned
    /\ Validated
    /\ CountFetched
    /\ N = 3 /\ batch_size = 2
    /\ status = <<"EXHAUSTED", "SUCCEEDED">>
    /\ staged.rows = <<"x", "x", NULL>>
    /\ remote = <<RecordOfRow(3)>>
    /\ fallback = NoFile
    /\ validation_results["supabase_row_count"] = <<1>>
    /\ validation_results["row_count_match"] = FALSE

============================================================================
